---- MODULE Spec2Model ----
(***************************************************************************)
(* Model of the msbuild crate's installation resolver (src/src/lib.rs):    *)
(* the range filter has_version_in_range, the batch extraction             *)
(* validate_instances_json, the selection find_match and its caller        *)
(* find_msbuild_in_range.  src/src/vs_installation.rs and                  *)
(* src/src/versions.rs hold a second copy of the same code.                *)
(*                                                                         *)
(* Texts are modelled at the level the code reads them:                    *)
(*  - a version text is a sequence of dot-separated segments, each segment *)
(*    a sequence of characters; characters 0..9 are the digits and NonDigit*)
(*    stands for any other character;                                      *)
(*  - a path text is a sequence of separator-separated segments, the empty *)
(*    string being the empty segment a trailing separator leaves behind.   *)
(***************************************************************************)
EXTENDS Integers, Sequences, FiniteSets, TLC

VARIABLES instances, max, min, env, op, validated, diag, result,
          fs, winSdkPath, registry, subdirs, sdk, valid, target, plv, history,
          vsWhere

\* The state of the Windows SDK functions: the file system, WIN_SDK_PATH, the
\* registry value InstallationFolder, the results of
\* include_versioned_subdirs, find_in_range and is_valid, and the path passed
\* to is_valid or create.
sdkVars == <<fs, winSdkPath, registry, subdirs, sdk, valid, target>>

\* The product line passed to find_msbuild and the log of the calls made.
callVars == <<plv, history>>

\* The state of the VsWhere functions: the value of VS_WHERE_PATH, the paths
\* that exist, the result of find_vswhere and the arguments run was given
\* and used.
whereVars == <<vsWhere>>

vars == <<instances, max, min, env, op, validated, diag, result,
          fs, winSdkPath, registry, subdirs, sdk, valid, target, plv, history,
          vsWhere>>

\* ------------------------------------------------------------------------
\* Bounds of the model
\* ------------------------------------------------------------------------

\* Largest number of records in the instance list printed by vswhere.
MaxInstances == 2

\* ------------------------------------------------------------------------
\* Option values
\* ------------------------------------------------------------------------

None == [some |-> FALSE, val |-> <<>>]

Some(x) == [some |-> TRUE, val |-> x]

\* ------------------------------------------------------------------------
\* Versions (lenient_semver::Version wrapped by InstallationVersion)
\* ------------------------------------------------------------------------

\* The character code standing for any character that is not a digit.
NonDigit == 10

RECURSIVE Number(_)
\* The decimal value of a segment of digits ("08" is 8).
Number(seg) ==
    IF seg = <<>> THEN 0
    ELSE 10 * Number(SubSeq(seg, 1, Len(seg) - 1)) + seg[Len(seg)]

IsNumeric(seg) == seg # <<>> /\ \A k \in 1..Len(seg) : seg[k] \in 0..9

\* Version::parse: every segment must be a number; major, minor and patch
\* default to 0 when the text has fewer than three segments.
VersionParse(text) ==
    IF text = <<>> \/ \E k \in 1..Len(text) : ~IsNumeric(text[k])
    THEN None
    ELSE LET nums == [k \in 1..Len(text) |-> Number(text[k])]
         IN  Some([k \in 1..(IF Len(text) < 3 THEN 3 ELSE Len(text)) |->
                      IF k <= Len(text) THEN nums[k] ELSE 0])

Component(v, k) == IF k <= Len(v) THEN v[k] ELSE 0

RECURSIVE CmpFrom(_, _, _)
CmpFrom(a, b, k) ==
    IF k > Len(a) /\ k > Len(b) THEN 0
    ELSE IF Component(a, k) < Component(b, k) THEN -1
    ELSE IF Component(a, k) > Component(b, k) THEN 1
    ELSE CmpFrom(a, b, k + 1)

\* Ord of InstallationVersion: numeric comparison of the components, most
\* significant first, the shorter version padded with zeros.  -1, 0, 1 for
\* Less, Equal, Greater.
VersionCmp(a, b) == CmpFrom(a, b, 1)

\* ------------------------------------------------------------------------
\* Paths
\* ------------------------------------------------------------------------

\* Path::components: empty segments (a trailing separator) are dropped.
Components(p) == SelectSeq(p, LAMBDA s : s # "")

\* Path::starts_with compares whole components.
StartsWith(p, base) ==
    LET pc == Components(p)
        bc == Components(base)
    IN  Len(bc) <= Len(pc) /\ SubSeq(pc, 1, Len(bc)) = bc

\* Path::join of a relative path.
Join(p, rel) == Components(p) \o rel

\* ------------------------------------------------------------------------
\* Range filter
\* ------------------------------------------------------------------------

\* A slip that makes the upper bound inclusive.
IsBelowMaxInclusive(version, maxv) ==
    IF maxv.some THEN VersionCmp(maxv.val, version) >= 0 ELSE TRUE

\* let is_below_max = max.map_or(true, |max_version| max_version > version)
IsBelowMax(version, maxv) ==
    IF maxv.some THEN VersionCmp(maxv.val, version) = 1 ELSE TRUE

\* A slip that makes the lower bound exclusive.
IsAboveMinExclusive(version, minv) ==
    IF minv.some THEN VersionCmp(version, minv.val) = 1 ELSE TRUE

\* let is_above_min = min.map_or(true, |min_version| version >= min_version)
IsAboveMin(version, minv) ==
    IF minv.some THEN VersionCmp(version, minv.val) >= 0 ELSE TRUE

\* A slip that accepts a version as soon as one bound is satisfied.
HasVersionInRangeEither(version, maxv, minv) ==
    IsBelowMax(version, maxv) \/ IsAboveMin(version, minv)

\* MsBuild::has_version_in_range
HasVersionInRange(version, maxv, minv) ==
    IsBelowMax(version, maxv) /\ IsAboveMin(version, minv)

\* ------------------------------------------------------------------------
\* Instance records (one serde_json::Value per installation)
\* ------------------------------------------------------------------------

\* A field of a record: absent, present with a value that is not a string
\* (as_str gives None), or present with a string.
JsonAbsent == [kind |-> "absent", text |-> <<>>]

JsonNumber == [kind |-> "number", text |-> <<>>]

JsonString(t) == [kind |-> "string", text |-> t]

\* json_value.get(..).and_then(as_str)
AsStr(field) == IF field.kind = "string" THEN Some(field.text) ELSE None

\* MsBuild::parse_installation_path; None is Err(InvalidData).
ParseInstallationPath(i) == AsStr(i.installationPath)

\* MsBuild::parse_installation_version; None is Err(InvalidData).
ParseInstallationVersion(i) ==
    LET s == AsStr(i.installationVersion)
    IN  IF s.some THEN VersionParse(s.val) ELSE None

\* A slip that leaves the range test out of the closure.
ValidateOneUnfiltered(i, maxv, minv) ==
    LET v == ParseInstallationVersion(i)
        p == ParseInstallationPath(i)
    IN  IF ~v.some THEN [keep |-> None, diag |-> 1]
        ELSE IF ~p.some THEN [keep |-> None, diag |-> 1]
        ELSE [keep |-> Some(<<v.val, p.val>>), diag |-> 0]

\* The closure of validate_instances_json applied to one record: the
\* candidate it contributes, if any, and the number of messages it prints.
ValidateOne(i, maxv, minv) ==
    LET v == ParseInstallationVersion(i)
        p == ParseInstallationPath(i)
    IN  IF ~v.some THEN [keep |-> None, diag |-> 1]
        ELSE IF ~HasVersionInRange(v.val, maxv, minv)
             THEN [keep |-> None, diag |-> 0]
        ELSE IF ~p.some THEN [keep |-> None, diag |-> 1]
        ELSE [keep |-> Some(<<v.val, p.val>>), diag |-> 0]

RECURSIVE ValidateInstancesJsonStopping(_, _, _)
\* A slip that lets the first record that fails extraction end the batch.
ValidateInstancesJsonStopping(json, maxv, minv) ==
    IF json = <<>> THEN <<>>
    ELSE LET r == ValidateOne(Head(json), maxv, minv)
             rest == ValidateInstancesJsonStopping(Tail(json), maxv, minv)
         IN  IF r.diag = 1 THEN <<>>
             ELSE IF r.keep.some THEN <<r.keep.val>> \o rest ELSE rest

RECURSIVE ValidateInstancesJson(_, _, _)
\* MsBuild::validate_instances_json: filter_map in input order.
ValidateInstancesJson(json, maxv, minv) ==
    IF json = <<>> THEN <<>>
    ELSE LET r == ValidateOne(Head(json), maxv, minv)
             rest == ValidateInstancesJson(Tail(json), maxv, minv)
         IN  IF r.keep.some THEN <<r.keep.val>> \o rest ELSE rest

RECURSIVE Diagnostics(_, _, _)
\* The number of messages validate_instances_json prints.
Diagnostics(json, maxv, minv) ==
    IF json = <<>> THEN 0
    ELSE ValidateOne(Head(json), maxv, minv).diag
         + Diagnostics(Tail(json), maxv, minv)

\* ------------------------------------------------------------------------
\* Selection
\* ------------------------------------------------------------------------

Ok(p) == [kind |-> "Ok", stage |-> "", path |-> p]

Err(k, s) == [kind |-> k, stage |-> s, path |-> <<>>]

RECURSIVE MinByKeyFrom(_, _)
MinByKeyFrom(acc, rest) ==
    IF rest = <<>> THEN acc
    ELSE MinByKeyFrom(IF VersionCmp(acc[1], Head(rest)[1]) = -1
                      THEN acc ELSE Head(rest), Tail(rest))

\* A slip that selects the oldest version.
MinByKey(cands) ==
    IF cands = <<>> THEN None ELSE Some(MinByKeyFrom(Head(cands), Tail(cands)))

RECURSIVE MaxByKeyFromFirst(_, _)
\* A slip that keeps the accumulator on a tie, as Iterator::min_by_key
\* does: the first of several equal maxima is returned.
MaxByKeyFromFirst(acc, rest) ==
    IF rest = <<>> THEN acc
    ELSE MaxByKeyFromFirst(IF VersionCmp(acc[1], Head(rest)[1]) \in {0, 1}
                           THEN acc ELSE Head(rest), Tail(rest))

RECURSIVE MaxByKeyFrom(_, _)
\* The fold of Iterator::max_by_key: the accumulator is kept only when it
\* is strictly greater than the next element.
MaxByKeyFrom(acc, rest) ==
    IF rest = <<>> THEN acc
    ELSE MaxByKeyFrom(IF VersionCmp(acc[1], Head(rest)[1]) = 1
                      THEN acc ELSE Head(rest), Tail(rest))

\* A slip that selects the first candidate, whatever its version.
MaxByKeyFirst(cands) ==
    IF cands = <<>> THEN None ELSE Some(Head(cands))

\* validated_instances.iter().max_by_key(|(v, _)| v)
MaxByKey(cands) ==
    IF cands = <<>> THEN None ELSE Some(MaxByKeyFrom(Head(cands), Tail(cands)))

RECURSIVE LongestUnder(_, _)
\* A slip that prefers the candidate with the longest path the override
\* lies under.
LongestUnder(cands, specified) ==
    IF cands = <<>> THEN None
    ELSE LET rest == LongestUnder(Tail(cands), specified)
         IN  IF ~StartsWith(specified, Head(cands)[2]) THEN rest
             ELSE IF rest.some /\ Len(Components(rest.val[2])) > Len(Components(Head(cands)[2]))
                  THEN rest
             ELSE Some(Head(cands))

RECURSIVE FirstUnder(_, _)
\* filter_map(|(_, p)| specified.starts_with(p) ...).next()
FirstUnder(cands, specified) ==
    IF cands = <<>> THEN None
    ELSE IF StartsWith(specified, Head(cands)[2]) THEN Some(Head(cands))
    ELSE FirstUnder(Tail(cands), specified)

\* A slip that forgets the environment variable.
SelectIgnoringOverride(cands, envv) ==
    LET hit == MaxByKey(cands)
    IN  IF hit.some THEN Ok(hit.val[2]) ELSE Err("NotFound", "find_match")

\* A slip that falls back to the latest version when the override matches
\* no candidate.
SelectWithFallback(cands, envv) ==
    LET hit == IF envv.some THEN FirstUnder(cands, envv.val) ELSE None
        best == IF hit.some THEN hit ELSE MaxByKey(cands)
    IN  IF best.some THEN Ok(best.val[2]) ELSE Err("NotFound", "find_match")

\* A slip that reports an empty candidate list as malformed data.
SelectInvalidData(cands, envv) ==
    LET hit == IF envv.some THEN FirstUnder(cands, envv.val) ELSE MaxByKey(cands)
    IN  IF hit.some THEN Ok(hit.val[2]) ELSE Err("InvalidData", "find_match")

\* A slip that keeps an override once one was seen: the value an earlier
\* call read is used again when that call had one.
EnvInstallationPathKept(envNow, earlier) ==
    IF earlier # <<>> /\ earlier[Len(earlier)].override.some
    THEN earlier[Len(earlier)].override
    ELSE envNow

\* std::env::var(MsBuild::ENV_KEY).ok() at the head of find_match: the value
\* the variable has when the call starts; the earlier calls are not
\* consulted.
EnvInstallationPath(envNow, earlier) == envNow

\* The two branches of find_match over the validated instances.
Select(cands, envv) ==
    LET hit == IF envv.some THEN FirstUnder(cands, envv.val) ELSE MaxByKey(cands)
    IN  IF hit.some THEN Ok(hit.val[2]) ELSE Err("NotFound", "find_match")

\* MsBuild::find_msbuild_in_range: the vswhere pipeline in front of
\* find_match, and the path of the executable behind it.  outcome is how far
\* the pipeline gets: find_vswhere, run, parse_from_json, list_instances.
FindMsbuildInRangeResult(outcome, cands, envv) ==
    CASE outcome = "vswhere_missing" -> Err("NotFound", "find_vswhere")
      [] outcome = "spawn_failed" -> Err("PermissionDenied", "run")
      [] outcome = "not_utf8" -> Err("InvalidData", "run")
      [] outcome = "not_json" -> Err("InvalidData", "parse_from_json")
      [] outcome = "not_array" -> Err("InvalidData", "list_instances")
      [] outcome = "ok" ->
            LET r == Select(cands, envv)
            IN  IF r.kind = "Ok"
                THEN Ok(Join(r.path, <<"MsBuild", "Current", "Bin", "msbuild.exe">>))
                ELSE r

\* TryFrom<&str> for ProductLineVersion; None is Err(InvalidData).
ProductLineTryFrom(s) ==
    CASE s = "2017" -> Some("Vs2017")
      [] s = "2019" -> Some("Vs2019")
      [] s = "2022" -> Some("Vs2022")
      [] OTHER -> None

\* The text of a whole-number version "n.0.0.0", n < 100.
MajorText(n) == << <<n \div 10, n % 10>>, <<0>>, <<0>>, <<0>> >>

\* A slip that gives every product line the maximum of Vs2022.
InstallationVersionMaxLatest(p) == VersionParse(MajorText(18)).val

\* ProductLineVersion::installation_version_max
InstallationVersionMax(p) ==
    CASE p = "Vs2022" -> VersionParse(MajorText(18)).val
      [] p = "Vs2019" -> VersionParse(MajorText(17)).val
      [] p = "Vs2017" -> VersionParse(MajorText(16)).val

\* A slip that starts each product line where the line before it starts.
InstallationVersionMinOverlapping(p) ==
    CASE p = "Vs2022" -> VersionParse(MajorText(16)).val
      [] p = "Vs2019" -> VersionParse(MajorText(15)).val
      [] p = "Vs2017" -> VersionParse(MajorText(15)).val

\* ProductLineVersion::installation_version_min
InstallationVersionMin(p) ==
    CASE p = "Vs2022" -> VersionParse(MajorText(17)).val
      [] p = "Vs2019" -> VersionParse(MajorText(16)).val
      [] p = "Vs2017" -> VersionParse(MajorText(15)).val

\* The head of MsBuild::find_msbuild: the product line, when there is one, is
\* converted first, and the bounds are taken from it.
FindMsbuildRange(s) ==
    LET potential_plv == IF s.some THEN ProductLineTryFrom(s.val) ELSE None
    IN  IF s.some /\ ~potential_plv.some
        THEN [kind |-> "InvalidData", max |-> None, min |-> None]
        ELSE [kind |-> "Ok",
              max |-> IF potential_plv.some
                      THEN Some(InstallationVersionMax(potential_plv.val)) ELSE None,
              min |-> IF potential_plv.some
                      THEN Some(InstallationVersionMin(potential_plv.val)) ELSE None]

\* A slip that takes every finished process for a success.
RunResultIgnoringStatus(exists, spawn, status, write) ==
    IF ~exists THEN [kind |-> "NotFound", started |-> FALSE]
    ELSE IF spawn # "spawned" THEN [kind |-> spawn, started |-> FALSE]
    ELSE [kind |-> "Ok", started |-> TRUE]

\* MsBuild::run: exists tells whether the executable path exists, spawn is
\* "spawned" or the kind of the error of Command::output, status the exit
\* status of the process and write whether its output could be written to
\* stdout.  The result is the kind returned and whether a process ran.
RunResult(exists, spawn, status, write) ==
    IF ~exists THEN [kind |-> "NotFound", started |-> FALSE]
    ELSE IF spawn # "spawned" THEN [kind |-> spawn, started |-> FALSE]
    ELSE IF status = "success" THEN [kind |-> "Ok", started |-> TRUE]
    ELSE IF write # "written" THEN [kind |-> write, started |-> TRUE]
    ELSE [kind |-> "Other", started |-> TRUE]

\* ------------------------------------------------------------------------
\* Windows SDK (src/src/win_sdk.rs)
\* ------------------------------------------------------------------------

\* WinSdkIncludes::EXPECTED_DIRS, in the order of the struct's fields.
EXPECTED_DIRS == <<"cppwinrt", "shared", "ucrt", "um", "winrt">>

ExpectedNames == {EXPECTED_DIRS[k] : k \in DOMAIN EXPECTED_DIRS}

\* The characters of the directory names the model uses; the last name is
\* no version.
NameText ==
    [n \in {"10.0.1.0", "10.0.2.0", "10.0.02.0", "10.0.10.0", "tmp"} |->
        CASE n = "10.0.1.0" -> << <<1, 0>>, <<0>>, <<1>>, <<0>> >>
          [] n = "10.0.2.0" -> << <<1, 0>>, <<0>>, <<2>>, <<0>> >>
          [] n = "10.0.02.0" -> << <<1, 0>>, <<0>>, <<0, 2>>, <<0>> >>
          [] n = "10.0.10.0" -> << <<1, 0>>, <<0>>, <<1, 0>>, <<0>> >>
          [] n = "tmp" -> << <<NonDigit, NonDigit, NonDigit>> >>]

\* The installation folder of the model's file system.
SdkRoot == <<"SDK">>

\* The working directory of the process, against which a path that does not
\* start at the installation folder is resolved.
CurrentDir == <<"SDK", "Include", "10.0.1.0">>

\* Path::is_dir on the file system fsv; the empty path is no directory.
\* The file system holds the installation folder, its Include
\* entry, the entries of Include and the entries below them.
IsDir(fsv, p) ==
    LET given == Components(p)
        c == IF given # <<>> /\ given[1] # SdkRoot[1] THEN CurrentDir \o given ELSE given
        entry(n) == {k \in DOMAIN fsv.entries : fsv.entries[k].name = n}
    IN  CASE Len(c) = 1 -> c = SdkRoot
          [] Len(c) = 2 ->
                /\ c[1] = SdkRoot[1] /\ c[2] = "Include"
                /\ fsv.include \in {"dir", "unreadable"}
          [] Len(c) = 3 ->
                /\ c[1] = SdkRoot[1] /\ c[2] = "Include"
                /\ \E k \in entry(c[3]) : fsv.entries[k].kind = "dir"
          [] Len(c) = 4 ->
                /\ c[1] = SdkRoot[1] /\ c[2] = "Include"
                /\ c[4] \in ExpectedNames
                /\ \E k \in entry(c[3]) :
                      /\ fsv.entries[k].kind = "dir"
                      /\ fsv.entries[k].children[c[4]] = "dir"
          [] OTHER -> FALSE

\* A result of the SDK functions: the versioned directory selected and the
\* five include paths of the handle.
SdkOk(dir, inc) == [kind |-> "Ok", stage |-> "", dir |-> dir, include |-> inc]

SdkErr(k, s) == [kind |-> k, stage |-> s, dir |-> <<>>, include |-> <<>>]

\* sub_directory(parent, dir)
SubDirectory(fsv, parent, dir) ==
    LET sub_dir == Join(parent, <<dir>>)
    IN  IF ~IsDir(fsv, sub_dir) THEN Err("NotFound", "sub_directory")
        ELSE Ok(sub_dir)

\* A slip that leaves the last required directory out of the test.
IsValidFirstFour(fsv, path) ==
    /\ IsDir(fsv, path)
    /\ ~\E k \in 1..4 : ~IsDir(fsv, Join(path, <<EXPECTED_DIRS[k]>>))

\* WinSdkIncludes::is_valid
IsValid(fsv, path) ==
    /\ IsDir(fsv, path)
    /\ ~\E k \in DOMAIN EXPECTED_DIRS : ~IsDir(fsv, Join(path, <<EXPECTED_DIRS[k]>>))

\* WinSdkIncludes::create: the five sub_directory calls, the first failure
\* is returned.
Create(fsv, include_path) ==
    LET subs == [k \in DOMAIN EXPECTED_DIRS |->
                    SubDirectory(fsv, include_path, EXPECTED_DIRS[k])]
    IN  IF \E k \in DOMAIN subs : subs[k].kind # "Ok"
        THEN SdkErr("NotFound", "sub_directory")
        ELSE SdkOk(include_path, [k \in DOMAIN subs |-> subs[k].path])

\* path.file_name().and_then(to_str).and_then(WinSdkVersion::parse(..).ok())
FileNameVersion(path) ==
    IF path = <<>> THEN None ELSE VersionParse(NameText[path[Len(path)]])

\* A slip that accepts every name that parses, whatever the range.
IsValidVersionedSubdirAnyRange(path, maxv, minv) ==
    FileNameVersion(path).some

\* A slip that lets a name through when it does not parse (map_or(true, ..)).
IsValidVersionedSubdirUnparsed(path, maxv, minv) ==
    LET v == FileNameVersion(path)
    IN  IF v.some THEN HasVersionInRange(v.val, maxv, minv) ELSE TRUE

\* WinSdk::is_valid_versioned_subdir
IsValidVersionedSubdir(path, maxv, minv) ==
    LET v == FileNameVersion(path)
    IN  IF v.some THEN HasVersionInRange(v.val, maxv, minv) ELSE FALSE

\* search_dir.read_dir(): the paths of the entries, in directory order.
ReadDir(fsv, search_dir) ==
    [k \in DOMAIN fsv.entries |-> Join(search_dir, <<fsv.entries[k].name>>)]

\* The filters of include_versioned_subdirs: as_valid_path,
\* is_valid_versioned_subdir and WinSdkIncludes::is_valid.
FilterSubdirs(fsv, paths, maxv, minv) ==
    SelectSeq(paths, LAMBDA p : /\ IsDir(fsv, p)
                                /\ IsValidVersionedSubdir(p, maxv, minv)
                                /\ IsValid(fsv, p))

\* A slip that returns the empty list instead of failing.
IncludeVersionedSubdirsEmptyOk(fsv, parent, maxv, minv) ==
    LET search_dir == SubDirectory(fsv, parent, "Include")
    IN  IF search_dir.kind # "Ok" THEN [kind |-> "NotFound", stage |-> "sub_directory", found |-> <<>>]
        ELSE IF fsv.include = "unreadable"
             THEN [kind |-> "PermissionDenied", stage |-> "read_dir", found |-> <<>>]
        ELSE [kind |-> "Ok", stage |-> "",
              found |-> FilterSubdirs(fsv, ReadDir(fsv, search_dir.path), maxv, minv)]

\* WinSdk::include_versioned_subdirs
IncludeVersionedSubdirs(fsv, parent, maxv, minv) ==
    LET search_dir == SubDirectory(fsv, parent, "Include")
    IN  IF search_dir.kind # "Ok" THEN [kind |-> "NotFound", stage |-> "sub_directory", found |-> <<>>]
        ELSE IF fsv.include = "unreadable"
             THEN [kind |-> "PermissionDenied", stage |-> "read_dir", found |-> <<>>]
        ELSE LET found == FilterSubdirs(fsv, ReadDir(fsv, search_dir.path), maxv, minv)
             IN  IF found = <<>>
                 THEN [kind |-> "NotFound", stage |-> "include_versioned_subdirs", found |-> <<>>]
                 ELSE [kind |-> "Ok", stage |-> "", found |-> found]

RECURSIVE MapInsert(_, _, _)
\* BTreeMap::insert: the map is a sequence of (version, directory) pairs in
\* ascending order of version; an equal key is overwritten.
MapInsert(map, v, dir) ==
    IF map = <<>> THEN << <<v, dir>> >>
    ELSE LET c == VersionCmp(v, Head(map)[1])
         IN  IF c = -1 THEN << <<v, dir>> >> \o map
             ELSE IF c = 0 THEN << <<v, dir>> >> \o Tail(map)
             ELSE <<Head(map)>> \o MapInsert(Tail(map), v, dir)

RECURSIVE VersionedDirectoryMap(_)
\* WinSdk::versioned_directory_map over directories whose names parse; the
\* directories are inserted in the order of the list.
VersionedDirectoryMap(version_dirs) ==
    IF version_dirs = <<>> THEN <<>>
    ELSE LET d == version_dirs[Len(version_dirs)]
         IN  MapInsert(VersionedDirectoryMap(SubSeq(version_dirs, 1, Len(version_dirs) - 1)),
                       FileNameVersion(d).val, d)

\* A slip that takes first_key_value instead of last_key_value.
SelectSdkFirstKey(fsv, dirs) ==
    IF \E k \in DOMAIN dirs : ~FileNameVersion(dirs[k]).some
    THEN SdkErr("Panic", "versioned_directory_map")
    ELSE LET map == VersionedDirectoryMap(dirs)
         IN  IF map = <<>> THEN SdkErr("Panic", "select_sdk")
             ELSE Create(fsv, map[1][2])

\* A slip that drops the directories that are no longer valid before
\* selecting, so that the next-highest valid version is taken.
SelectSdkStillValid(fsv, dirs) ==
    LET valid_dirs == SelectSeq(dirs, LAMBDA p : IsValid(fsv, p))
    IN  IF valid_dirs = <<>> THEN SdkErr("NotFound", "sub_directory")
        ELSE Create(fsv, VersionedDirectoryMap(valid_dirs)[Len(VersionedDirectoryMap(valid_dirs))][2])

\* WinSdk::select_sdk; both unwrap calls panic on None.
SelectSdk(fsv, dirs) ==
    IF \E k \in DOMAIN dirs : ~FileNameVersion(dirs[k]).some
    THEN SdkErr("Panic", "versioned_directory_map")
    ELSE LET map == VersionedDirectoryMap(dirs)
         IN  IF map = <<>> THEN SdkErr("Panic", "select_sdk")
             ELSE Create(fsv, map[Len(map)][2])

\* A path segment holding characters that have no Unicode form.
NotUnicode == "not unicode"

\* std::env::var(key).ok(): the value of the variable, None when it is
\* unset and also when its value is not valid Unicode.
EnvVar(raw) ==
    IF raw.some /\ \E k \in DOMAIN raw.val : raw.val[k] = NotUnicode
    THEN None
    ELSE raw

\* WinSdk::installation_folder: WIN_SDK_PATH when it is set, the registry
\* value InstallationFolder otherwise (None: the key or value is missing).
InstallationFolder(fsv, raw, reg) ==
    LET envv == EnvVar(raw)
    IN
    IF envv.some
    THEN IF ~IsDir(fsv, envv.val) THEN Err("InvalidData", "installation_folder_environment_variable")
         ELSE Ok(envv.val)
    ELSE IF ~reg.some THEN Err("NotFound", "open_subkey")
    ELSE IF ~IsDir(fsv, reg.val) THEN Err("NotFound", "installation_folder_from_registry")
    ELSE Ok(reg.val)

\* WinSdk::find_in_range on an unchanging file system.
FindInRangeResult(fsv, envv, reg, maxv, minv) ==
    LET installation_folder == InstallationFolder(fsv, envv, reg)
    IN  IF installation_folder.kind # "Ok"
        THEN SdkErr(installation_folder.kind, installation_folder.stage)
        ELSE LET dirs == IncludeVersionedSubdirs(fsv, installation_folder.path, maxv, minv)
             IN  IF dirs.kind # "Ok" THEN SdkErr(dirs.kind, dirs.stage)
                 ELSE SelectSdk(fsv, dirs.found)

\* ------------------------------------------------------------------------
\* Inputs
\* ------------------------------------------------------------------------

\* "17.08", "17.12.1", "18.0" and a text that is no version.
VersionTexts ==
    { << <<1, 7>>, <<0, 8>> >>,
      << <<1, 7>>, <<1, 2>>, <<1>> >>,
      << <<1, 8>>, <<0>> >>,
      << <<NonDigit>> >> }

VersionFields == {JsonAbsent} \cup {JsonString(t) : t \in VersionTexts}

\* "VS", "VS/Community" and "VS/Enterprise/".
PathTexts ==
    { <<"VS">>, <<"VS", "Community">>, <<"VS", "Enterprise", "">> }

PathFields == {JsonAbsent, JsonNumber} \cup {JsonString(t) : t \in PathTexts}

Records ==
    [installationVersion : VersionFields, installationPath : PathFields]

RECURSIVE SeqsUpTo(_, _)
SeqsUpTo(S, n) ==
    IF n = 0 THEN {<<>>}
    ELSE LET shorter == SeqsUpTo(S, n - 1)
         IN  shorter \cup {Append(q, x) : q \in shorter, x \in S}

\* The bounds a caller passes: InstallationVersion::parse("17.8") and
\* InstallationVersion::parse("18.0"), or no bound.
Bounds ==
    {None, VersionParse(<< <<1, 7>>, <<8>> >>),
           VersionParse(<< <<1, 8>>, <<0>> >>)}

\* Values of VS_INSTALLATION_PATH: unset, "VS/Community/MSBuild",
\* "VS/Enterprise".
Overrides ==
    {None, Some(<<"VS", "Community", "MSBuild">>), Some(<<"VS", "Enterprise">>)}

VsWhereOutcomes ==
    {"vswhere_missing", "spawn_failed", "not_utf8", "not_json", "not_array", "ok"}

\* ------------------------------------------------------------------------
\* State machine
\* ------------------------------------------------------------------------

Pending == [kind |-> "Pending", stage |-> "", path |-> <<>>]

SdkPending == [kind |-> "Pending", stage |-> "", dir |-> <<>>, include |-> <<>>]

FoundPending == [kind |-> "Pending", stage |-> "", found |-> <<>>]

\* No Windows SDK is installed and no SDK function has been called.
NoSdk ==
    /\ fs = [include |-> "absent", entries |-> <<>>]
    /\ winSdkPath = None
    /\ registry = None
    /\ subdirs = FoundPending
    /\ sdk = SdkPending
    /\ valid = FALSE
    /\ target = <<>>

WherePending == [kind |-> "Pending", stage |-> "", path |-> <<>>]

\* VS_WHERE_PATH is unset, no vswhere.exe exists and no VsWhere function has
\* been called.
NoVsWhere ==
    vsWhere = [envPath |-> None, existing |-> {}, found |-> WherePending,
               given |-> None, used |-> <<>>, ran |-> "Pending"]

\* find_msbuild has not been called and nothing is logged.
NoCalls ==
    /\ plv = None
    /\ history = <<>>

\* The world a call runs in: the instance list vswhere prints and the value
\* of VS_INSTALLATION_PATH.  No call has been made.
Init ==
    /\ instances \in SeqsUpTo(Records, MaxInstances)
    /\ env \in Overrides
    /\ max = None
    /\ min = None
    /\ op = "none"
    /\ validated = <<>>
    /\ diag = 0
    /\ result = Pending
    /\ NoSdk
    /\ NoCalls
    /\ NoVsWhere

\* A call of MsBuild::find_match(instances, max, min).
FindMatch(maxv, minv) ==
    /\ op = "none"
    /\ max' = maxv
    /\ min' = minv
    /\ op' = "find_match"
    /\ validated' = ValidateInstancesJson(instances, maxv, minv)
    /\ diag' = Diagnostics(instances, maxv, minv)
    /\ result' = Select(validated', env)
    /\ UNCHANGED <<instances, env, sdkVars, callVars, whereVars>>

\* A call of MsBuild::find_msbuild_in_range(max, min).  When the pipeline
\* fails before list_instances succeeds there is no instance list.
FindMsbuildInRange(maxv, minv, outcome) ==
    /\ op = "none"
    /\ outcome # "ok" => instances = <<>>
    /\ max' = maxv
    /\ min' = minv
    /\ op' = "find_msbuild_in_range"
    /\ validated' = IF outcome = "ok"
                    THEN ValidateInstancesJson(instances, maxv, minv) ELSE <<>>
    /\ diag' = IF outcome = "ok" THEN Diagnostics(instances, maxv, minv) ELSE 0
    /\ result' = FindMsbuildInRangeResult(outcome, validated', env)
    /\ UNCHANGED <<instances, env, sdkVars, callVars, whereVars>>

\* The call returns: its arguments, candidates and result are dropped, and
\* the next call starts from the world alone.
Return ==
    /\ op \notin {"none", "find_match_entered"}
    /\ op' = "none"
    /\ max' = None
    /\ min' = None
    /\ validated' = <<>>
    /\ diag' = 0
    /\ result' = Pending
    /\ UNCHANGED <<instances, env, sdkVars, callVars, whereVars>>

Next ==
    \/ \E maxv \in Bounds, minv \in Bounds : FindMatch(maxv, minv)
    \/ \E maxv \in Bounds, minv \in Bounds, outcome \in VsWhereOutcomes :
          FindMsbuildInRange(maxv, minv, outcome)
    \/ Return

Spec == Init /\ [][Next]_vars

\* ------------------------------------------------------------------------
\* Windows SDK state machine
\* ------------------------------------------------------------------------

\* Largest number of entries in the Include directory.
MaxEntries == 2

Names == DOMAIN NameText

\* What lies below a versioned directory: the five expected directories,
\* all but the last, or nothing.
AllChildren == [n \in ExpectedNames |-> "dir"]

ChildConfigs ==
    {AllChildren,
     [n \in ExpectedNames |-> IF n = "winrt" THEN "absent" ELSE "dir"],
     [n \in ExpectedNames |-> "absent"]}

DirEntries ==
    {[name |-> n, kind |-> "file", children |-> [c \in ExpectedNames |-> "absent"]] : n \in Names}
    \cup [name : Names, kind : {"dir"}, children : ChildConfigs]

\* The listings of a directory: entries with distinct names, in any order.
Listings(E, n) ==
    {q \in SeqsUpTo(E, n) : \A a, b \in DOMAIN q : a # b => q[a].name # q[b].name}

SdkFileSystems ==
    {[include |-> k, entries |-> <<>>] : k \in {"absent", "file"}}
    \cup [include : {"dir", "unreadable"}, entries : Listings(DirEntries, MaxEntries)]

\* WinSdkVersion::parse("10.0.2.0"), WinSdkVersion::parse("10.0.10.0"), or
\* no bound.
SdkBounds ==
    {None, VersionParse(NameText["10.0.2.0"]), VersionParse(NameText["10.0.10.0"])}

\* WIN_SDK_PATH names the installation folder, names nothing, or is unset
\* with no registry entry.
SdkPaths == {Some(SdkRoot), Some(<<"Nowhere">>), None}

NoMsBuild ==
    /\ instances = <<>>
    /\ env = None
    /\ validated = <<>>
    /\ diag = 0
    /\ result = Pending

InitSdk ==
    /\ fs \in SdkFileSystems
    /\ winSdkPath \in SdkPaths
    /\ registry = None
    /\ max = None
    /\ min = None
    /\ op = "none"
    /\ subdirs = FoundPending
    /\ sdk = SdkPending
    /\ valid = FALSE
    /\ target = <<>>
    /\ NoMsBuild
    /\ NoCalls
    /\ NoVsWhere

msVars == <<instances, env, validated, diag, result>>

\* A call of WinSdk::include_versioned_subdirs(parent, max, min) on the
\* installation folder.
IncludeVersionedSubdirsCall(maxv, minv) ==
    /\ op = "none"
    /\ max' = maxv
    /\ min' = minv
    /\ op' = "include_versioned_subdirs"
    /\ subdirs' = IncludeVersionedSubdirs(fs, SdkRoot, maxv, minv)
    /\ UNCHANGED <<fs, winSdkPath, registry, sdk, valid, target, msVars, callVars, whereVars>>

\* A call of WinSdk::find_in_range(max, min).
FindInRange(maxv, minv) ==
    /\ op = "none"
    /\ max' = maxv
    /\ min' = minv
    /\ op' = "find_in_range"
    /\ sdk' = FindInRangeResult(fs, winSdkPath, registry, maxv, minv)
    /\ UNCHANGED <<fs, winSdkPath, registry, subdirs, valid, target, msVars, callVars, whereVars>>

\* A call of WinSdk::find().
Find ==
    /\ op = "none"
    /\ op' = "find"
    /\ sdk' = FindInRangeResult(fs, winSdkPath, registry, None, None)
    /\ UNCHANGED <<fs, winSdkPath, registry, max, min, subdirs, valid, target, msVars, callVars, whereVars>>

\* The call returns.
ReturnSdk ==
    /\ op # "none"
    /\ op' = "none"
    /\ max' = None
    /\ min' = None
    /\ subdirs' = FoundPending
    /\ sdk' = SdkPending
    /\ valid' = FALSE
    /\ target' = <<>>
    /\ UNCHANGED <<fs, winSdkPath, registry, msVars, callVars, whereVars>>

NextSdk ==
    \/ \E maxv \in SdkBounds, minv \in SdkBounds : IncludeVersionedSubdirsCall(maxv, minv)
    \/ \E maxv \in SdkBounds, minv \in SdkBounds : FindInRange(maxv, minv)
    \/ Find
    \/ ReturnSdk

SpecSdk == InitSdk /\ [][NextSdk]_vars

\* ------------------------------------------------------------------------
\* WinSdkIncludes state machine
\* ------------------------------------------------------------------------

\* One versioned directory (or a file of that name, or nothing) below
\* Include, each expected name being a directory, a file or absent.
IncludesFileSystems ==
    {[include |-> "dir", entries |-> <<>>]}
    \cup {[include |-> "dir",
           entries |-> << [name |-> "10.0.1.0", kind |-> "file",
                           children |-> [c \in ExpectedNames |-> "absent"]] >>]}
    \cup {[include |-> "dir",
           entries |-> << [name |-> "10.0.1.0", kind |-> "dir", children |-> ch] >>] :
             ch \in [ExpectedNames -> {"dir", "file", "absent"}]}

\* The paths handed to is_valid and create: the versioned directory, the
\* installation folder itself and the empty path.
IncludePaths == {<<"SDK", "Include", "10.0.1.0">>, SdkRoot, <<>>}

InitIncludes ==
    /\ fs \in IncludesFileSystems
    /\ winSdkPath = None
    /\ registry = None
    /\ max = None
    /\ min = None
    /\ op = "none"
    /\ subdirs = FoundPending
    /\ sdk = SdkPending
    /\ valid = FALSE
    /\ target = <<>>
    /\ NoMsBuild
    /\ NoCalls
    /\ NoVsWhere

\* A call of WinSdkIncludes::is_valid(path).
IsValidCall(path) ==
    /\ op = "none"
    /\ op' = "is_valid"
    /\ target' = path
    /\ valid' = IsValid(fs, path)
    /\ UNCHANGED <<fs, winSdkPath, registry, max, min, subdirs, sdk, msVars, callVars, whereVars>>

\* A call of WinSdkIncludes::create(include_path).
CreateCall(path) ==
    /\ op = "none"
    /\ op' = "create"
    /\ target' = path
    /\ sdk' = Create(fs, path)
    /\ UNCHANGED <<fs, winSdkPath, registry, max, min, subdirs, valid, msVars, callVars, whereVars>>

NextIncludes ==
    \/ \E path \in IncludePaths : IsValidCall(path)
    \/ \E path \in IncludePaths : CreateCall(path)
    \/ ReturnSdk

SpecIncludes == InitIncludes /\ [][NextIncludes]_vars

\* ------------------------------------------------------------------------
\* find_msbuild state machine
\* ------------------------------------------------------------------------

\* Largest number of instances vswhere lists for find_msbuild.
MaxLineInstances == 2

\* The installations 14.9.0.0, 15.0.0.0, 15.9.0.0, 16.0.0.0, 16.11.0.0,
\* 17.0.0.0, 17.12.1.0 and 18.0.0.0, each in a folder of its own.
LineRecords ==
    { [installationVersion |-> JsonString(<< <<1, 4>>, <<9>>, <<0>>, <<0>> >>),
       installationPath |-> JsonString(<<"VS", "14.9">>)],
      [installationVersion |-> JsonString(MajorText(15)),
       installationPath |-> JsonString(<<"VS", "15.0">>)],
      [installationVersion |-> JsonString(<< <<1, 5>>, <<9>>, <<0>>, <<0>> >>),
       installationPath |-> JsonString(<<"VS", "15.9">>)],
      [installationVersion |-> JsonString(MajorText(16)),
       installationPath |-> JsonString(<<"VS", "16.0">>)],
      [installationVersion |-> JsonString(<< <<1, 6>>, <<1, 1>>, <<0>>, <<0>> >>),
       installationPath |-> JsonString(<<"VS", "16.11">>)],
      [installationVersion |-> JsonString(MajorText(17)),
       installationPath |-> JsonString(<<"VS", "17.0">>)],
      [installationVersion |-> JsonString(<< <<1, 7>>, <<1, 2>>, <<1>>, <<0>> >>),
       installationPath |-> JsonString(<<"VS", "17.12">>)],
      [installationVersion |-> JsonString(MajorText(18)),
       installationPath |-> JsonString(<<"VS", "18.0">>)] }

\* The arguments of find_msbuild: none, the three known product lines, and
\* two strings that name none.
ProductLines ==
    {None, Some("2017"), Some("2019"), Some("2022"), Some("2015"), Some("Vs2022")}

InitLine ==
    /\ instances \in SeqsUpTo(LineRecords, MaxLineInstances)
    /\ env = None
    /\ max = None
    /\ min = None
    /\ op = "none"
    /\ validated = <<>>
    /\ diag = 0
    /\ result = Pending
    /\ NoSdk
    /\ NoCalls
    /\ NoVsWhere

\* A call of MsBuild::find_msbuild(product_line_version).
FindMsbuild(s, outcome) ==
    /\ op = "none"
    /\ op' = "find_msbuild"
    /\ plv' = s
    /\ LET range == FindMsbuildRange(s)
           ran == range.kind = "Ok" /\ outcome = "ok"
       IN  /\ max' = range.max
           /\ min' = range.min
           /\ validated' = IF ran
                           THEN ValidateInstancesJson(instances, range.max, range.min)
                           ELSE <<>>
           /\ diag' = IF ran THEN Diagnostics(instances, range.max, range.min) ELSE 0
           /\ result' = IF range.kind = "Ok"
                        THEN FindMsbuildInRangeResult(outcome, validated', env)
                        ELSE Err("InvalidData", "try_from")
    /\ UNCHANGED <<instances, env, sdkVars, history, whereVars>>

\* find_msbuild returns.
ReturnLine ==
    /\ op = "find_msbuild"
    /\ op' = "none"
    /\ plv' = None
    /\ max' = None
    /\ min' = None
    /\ validated' = <<>>
    /\ diag' = 0
    /\ result' = Pending
    /\ UNCHANGED <<instances, env, sdkVars, history, whereVars>>

NextLine ==
    \/ \E s \in ProductLines, outcome \in VsWhereOutcomes : FindMsbuild(s, outcome)
    \/ ReturnLine

SpecLine == InitLine /\ [][NextLine]_vars

\* ------------------------------------------------------------------------
\* find_match over longer instance lists
\* ------------------------------------------------------------------------

\* Largest number of instances in a list whose order is varied.
MaxPermInstances == 3

\* "17.08" in "VS", "17.8" in "VS/Community", "17.12.1" in either, and a
\* record without a version.
PermRecords ==
    { [installationVersion |-> JsonString(<< <<1, 7>>, <<0, 8>> >>),
       installationPath |-> JsonString(<<"VS">>)],
      [installationVersion |-> JsonString(<< <<1, 7>>, <<8>> >>),
       installationPath |-> JsonString(<<"VS", "Community">>)],
      [installationVersion |-> JsonString(<< <<1, 7>>, <<1, 2>>, <<1>> >>),
       installationPath |-> JsonString(<<"VS">>)],
      [installationVersion |-> JsonString(<< <<1, 7>>, <<1, 2>>, <<1>> >>),
       installationPath |-> JsonString(<<"VS", "Community">>)],
      [installationVersion |-> JsonAbsent, installationPath |-> JsonString(<<"VS">>)] }

InitPerm ==
    /\ instances \in SeqsUpTo(PermRecords, MaxPermInstances)
    /\ env \in Overrides
    /\ max = None
    /\ min = None
    /\ op = "none"
    /\ validated = <<>>
    /\ diag = 0
    /\ result = Pending
    /\ NoSdk
    /\ NoCalls
    /\ NoVsWhere

SpecPerm == InitPerm /\ [][Next]_vars

\* ------------------------------------------------------------------------
\* A sequence of find_match calls in a changing environment
\* ------------------------------------------------------------------------

\* Largest number of calls of find_match in a run.
MaxCalls == 3

\* "17.08" in "VS/Community" and "17.12.1" in "VS".
CallRecords ==
    << [installationVersion |-> JsonString(<< <<1, 7>>, <<0, 8>> >>),
        installationPath |-> JsonString(<<"VS", "Community">>)],
       [installationVersion |-> JsonString(<< <<1, 7>>, <<1, 2>>, <<1>> >>),
        installationPath |-> JsonString(<<"VS">>)] >>

\* The instance lists passed to find_match.
CallLists == { <<>>, CallRecords, <<CallRecords[2], CallRecords[1]>> }

\* The maximum passed to find_match: none, or 17.9.
CallBounds == {None, VersionParse(<< <<1, 7>>, <<9>> >>)}

\* Values of VS_INSTALLATION_PATH: unset or "VS/Community/MSBuild".
CallOverrides == {None, Some(<<"VS", "Community", "MSBuild">>)}

InitCalls ==
    /\ instances = <<>>
    /\ env \in CallOverrides
    /\ max = None
    /\ min = None
    /\ op = "none"
    /\ validated = <<>>
    /\ diag = 0
    /\ result = Pending
    /\ NoSdk
    /\ NoCalls
    /\ NoVsWhere

\* The process environment changes, at any moment.
SetEnv(v) ==
    /\ v # env
    /\ env' = v
    /\ UNCHANGED <<instances, max, min, op, validated, diag, result, sdkVars, callVars, whereVars>>

\* MsBuild::find_match(json, max, None) is entered: the override is read and
\* the instances are validated.
FindMatchEnter(json, maxv) ==
    /\ op = "none"
    /\ Len(history) < MaxCalls
    /\ op' = "find_match_entered"
    /\ instances' = json
    /\ max' = maxv
    /\ min' = None
    /\ validated' = ValidateInstancesJson(json, maxv, None)
    /\ diag' = Diagnostics(json, maxv, None)
    /\ history' = Append(history,
                         [instances |-> json, max |-> maxv, min |-> None, env |-> env,
                          override |-> EnvInstallationPath(env, history),
                          result |-> Pending])
    /\ UNCHANGED <<env, result, sdkVars, plv, whereVars>>

\* The call selects among the validated instances with the override it read
\* on entry.
FindMatchSelect ==
    /\ op = "find_match_entered"
    /\ op' = "find_match"
    /\ result' = Select(validated, history[Len(history)].override)
    /\ history' = [history EXCEPT ![Len(history)].result = result']
    /\ UNCHANGED <<instances, max, min, env, validated, diag, sdkVars, plv, whereVars>>

NextCalls ==
    \/ \E v \in CallOverrides : SetEnv(v)
    \/ \E json \in CallLists, maxv \in CallBounds : FindMatchEnter(json, maxv)
    \/ FindMatchSelect
    \/ Return

SpecCalls == InitCalls /\ [][NextCalls]_vars

\* ------------------------------------------------------------------------
\* WinSdk::installation_folder state machine
\* ------------------------------------------------------------------------

\* The registry value InstallationFolder: missing, the installation folder,
\* its Include directory, or a path that names nothing.
RegistryValues ==
    {None, Some(SdkRoot), Some(<<"SDK", "Include">>), Some(<<"Nowhere">>)}

\* WIN_SDK_PATH: the values of SdkPaths, or a value that is not valid
\* Unicode.
FolderPaths == SdkPaths \cup {Some(<<"SDK", NotUnicode>>)}

InitFolder ==
    /\ fs \in SdkFileSystems
    /\ winSdkPath \in FolderPaths
    /\ registry \in RegistryValues
    /\ max = None
    /\ min = None
    /\ op = "none"
    /\ subdirs = FoundPending
    /\ sdk = SdkPending
    /\ valid = FALSE
    /\ target = <<>>
    /\ NoMsBuild
    /\ NoCalls
    /\ NoVsWhere

\* A call of WinSdk::installation_folder().
InstallationFolderCall ==
    /\ op = "none"
    /\ op' = "installation_folder"
    /\ result' = InstallationFolder(fs, winSdkPath, registry)
    /\ UNCHANGED <<instances, env, validated, diag, max, min, sdkVars, callVars, whereVars>>

\* installation_folder or find returns.
ReturnFolder ==
    /\ op # "none"
    /\ op' = "none"
    /\ result' = Pending
    /\ sdk' = SdkPending
    /\ UNCHANGED <<instances, env, validated, diag, max, min,
                   fs, winSdkPath, registry, subdirs, valid, target, callVars, whereVars>>

NextFolder == InstallationFolderCall \/ Find \/ ReturnFolder

SpecFolder == InitFolder /\ [][NextFolder]_vars

\* ------------------------------------------------------------------------
\* find_in_range on a file system that changes during the call
\* ------------------------------------------------------------------------

\* Include holds the directories 10.0.2.0 and 10.0.10.0, in either order,
\* each with all, all but one or none of the required sub-directories.
RaceFileSystems ==
    {[include |-> "dir",
      entries |-> <<[name |-> n[1], kind |-> "dir", children |-> ca],
                    [name |-> n[2], kind |-> "dir", children |-> cb]>>] :
        n \in {<<"10.0.2.0", "10.0.10.0">>, <<"10.0.10.0", "10.0.2.0">>},
        ca \in ChildConfigs, cb \in ChildConfigs}

InitRace ==
    /\ fs \in RaceFileSystems
    /\ winSdkPath = Some(SdkRoot)
    /\ registry = None
    /\ max = None
    /\ min = None
    /\ op = "none"
    /\ subdirs = FoundPending
    /\ sdk = SdkPending
    /\ valid = FALSE
    /\ target = <<>>
    /\ NoMsBuild
    /\ NoCalls
    /\ NoVsWhere

\* Another process removes a sub-directory of a versioned directory, before
\* a call or between its two halves.
RemoveSubdir(k, name) ==
    /\ op \in {"none", "find_in_range_listed"}
    /\ k \in DOMAIN fs.entries
    /\ fs.entries[k].children[name] = "dir"
    /\ fs' = [fs EXCEPT !.entries[k].children[name] = "absent"]
    /\ UNCHANGED <<winSdkPath, registry, max, min, op, subdirs, sdk, valid, target,
                   msVars, callVars, whereVars>>

\* The first half of WinSdk::find_in_range(max, min): installation_folder and
\* include_versioned_subdirs; an error of either ends the call.
FindInRangeList(maxv, minv) ==
    /\ op = "none"
    /\ max' = maxv
    /\ min' = minv
    /\ LET installation_folder == InstallationFolder(fs, winSdkPath, registry)
           dirs == IncludeVersionedSubdirs(fs, installation_folder.path, maxv, minv)
       IN  IF installation_folder.kind # "Ok"
           THEN /\ subdirs' = FoundPending
                /\ sdk' = SdkErr(installation_folder.kind, installation_folder.stage)
                /\ op' = "find_in_range"
           ELSE /\ subdirs' = dirs
                /\ sdk' = IF dirs.kind # "Ok" THEN SdkErr(dirs.kind, dirs.stage) ELSE SdkPending
                /\ op' = IF dirs.kind # "Ok" THEN "find_in_range" ELSE "find_in_range_listed"
    /\ UNCHANGED <<fs, winSdkPath, registry, valid, target, msVars, callVars, whereVars>>

\* The second half: select_sdk over the directories listed, on the file
\* system as it is now.
FindInRangeSelect ==
    /\ op = "find_in_range_listed"
    /\ op' = "find_in_range"
    /\ sdk' = SelectSdk(fs, subdirs.found)
    /\ UNCHANGED <<fs, winSdkPath, registry, max, min, subdirs, valid, target,
                   msVars, callVars, whereVars>>

\* find_in_range returns.
ReturnRace ==
    /\ op = "find_in_range"
    /\ op' = "none"
    /\ max' = None
    /\ min' = None
    /\ subdirs' = FoundPending
    /\ sdk' = SdkPending
    /\ UNCHANGED <<fs, winSdkPath, registry, valid, target, msVars, callVars, whereVars>>

NextRace ==
    \/ \E k \in 1..2, name \in ExpectedNames : RemoveSubdir(k, name)
    \/ \E maxv \in SdkBounds, minv \in SdkBounds : FindInRangeList(maxv, minv)
    \/ FindInRangeSelect
    \/ ReturnRace

SpecRace == InitRace /\ [][NextRace]_vars

\* ------------------------------------------------------------------------
\* MsBuild::run state machine
\* ------------------------------------------------------------------------

\* Largest number of runs of msbuild logged.
MaxRuns == 2

\* What a run meets: the executable is missing; it cannot be started; it
\* succeeds; it fails with or without an exit code, and its output can or
\* cannot be written to stdout.
RunConditions ==
    {[exists |-> FALSE, spawn |-> "spawned", status |-> "success", write |-> "written"]}
    \cup [exists : {TRUE}, spawn : {"PermissionDenied", "NotFound"},
          status : {"success"}, write : {"written"}]
    \cup {[exists |-> TRUE, spawn |-> "spawned", status |-> "success", write |-> "written"]}
    \cup [exists : {TRUE}, spawn : {"spawned"}, status : {"code", "signal"},
          write : {"written", "BrokenPipe"}]

InitRun ==
    /\ instances \in CallLists
    /\ env \in CallOverrides
    /\ max = None
    /\ min = None
    /\ op = "none"
    /\ validated = <<>>
    /\ diag = 0
    /\ result = Pending
    /\ NoSdk
    /\ NoCalls
    /\ NoVsWhere

\* A call of run on the handle find_msbuild_in_range returned.
Run(c) ==
    /\ op \in {"find_msbuild_in_range", "run"}
    /\ result.kind = "Ok"
    /\ Len(history) < MaxRuns
    /\ op' = "run"
    /\ LET r == RunResult(c.exists, c.spawn, c.status, c.write)
       IN  history' = Append(history,
                             [path |-> result.path, exists |-> c.exists, spawn |-> c.spawn,
                              status |-> c.status, write |-> c.write,
                              kind |-> r.kind, started |-> r.started])
    /\ UNCHANGED <<instances, env, max, min, validated, diag, result, sdkVars, plv, whereVars>>

NextRun ==
    \/ \E maxv \in CallBounds : FindMsbuildInRange(maxv, None, "ok")
    \/ \E c \in RunConditions : Run(c)
    \/ Return

SpecRun == InitRun /\ [][NextRun]_vars

\* ------------------------------------------------------------------------
\* Vocabulary of the properties
\* ------------------------------------------------------------------------

Indices == DOMAIN instances

HasVersion(k) ==
    /\ instances[k].installationVersion.kind = "string"
    /\ VersionParse(instances[k].installationVersion.text).some

HasPath(k) == instances[k].installationPath.kind = "string"

VersionOf(k) == VersionParse(instances[k].installationVersion.text).val

PathOf(k) == instances[k].installationPath.text

Lt(a, b) == VersionCmp(a, b) = -1

Ge(a, b) == VersionCmp(a, b) \in {0, 1}

\* v is in [min, max) for the bounds of the current call.
WithinBounds(v) ==
    /\ max.some => Lt(v, max.val)
    /\ min.some => Ge(v, min.val)

\* The well-formed records whose version is in range.
Qualifying == {k \in Indices : HasVersion(k) /\ HasPath(k) /\ WithinBounds(VersionOf(k))}

Called == op \in {"find_match", "find_msbuild_in_range"}

\* ------------------------------------------------------------------------
\* Properties
\* ------------------------------------------------------------------------

\* C1: has_version_in_range(v, max, min) is true exactly when (max is absent
\* or v < max) and (min is absent or v >= min), for every version of the
\* instance list and every pair of bounds; with both bounds absent it is true.
C1_RangePolicy ==
    \A k \in Indices : HasVersion(k) =>
        LET v == VersionOf(k)
        IN  /\ HasVersionInRange(v, max, min) <=> WithinBounds(v)
            /\ HasVersionInRange(v, None, None)

C1_Witness ==
    /\ op = "find_match"
    /\ max.some /\ min.some
    /\ \E k \in Indices : HasVersion(k) /\ WithinBounds(VersionOf(k))
    /\ \E k \in Indices : HasVersion(k) /\ ~WithinBounds(VersionOf(k))
    /\ Len(validated) = 1

\* C2: with only a max bound the range test is false if and only if
\* v >= max; a version equal to max is out of range and yields no candidate.
C2_MaxExclusive ==
    (max.some /\ ~min.some) =>
        \A k \in Indices : HasVersion(k) =>
            LET v == VersionOf(k)
            IN  /\ ~HasVersionInRange(v, max, None) <=> Ge(v, max.val)
                /\ (op = "find_match" /\ VersionCmp(v, max.val) = 0)
                      => \A c \in DOMAIN validated : validated[c][1] # v

C2_Witness ==
    /\ op = "find_match"
    /\ max.some /\ ~min.some
    /\ \E k \in Indices :
          HasVersion(k) /\ HasPath(k) /\ VersionCmp(VersionOf(k), max.val) = 0
    /\ validated = <<>>

\* C3: with only a min bound the range test is true if and only if
\* v >= min; a version equal to min is in range and yields a candidate.
C3_MinInclusive ==
    (min.some /\ ~max.some) =>
        \A k \in Indices : HasVersion(k) =>
            LET v == VersionOf(k)
            IN  /\ HasVersionInRange(v, None, min) <=> Ge(v, min.val)
                /\ (op = "find_match" /\ HasPath(k) /\ VersionCmp(v, min.val) = 0)
                      => \E c \in DOMAIN validated : validated[c] = <<v, PathOf(k)>>

C3_Witness ==
    /\ op = "find_match"
    /\ min.some /\ ~max.some
    /\ \E k \in Indices :
          HasVersion(k) /\ HasPath(k) /\ VersionCmp(VersionOf(k), min.val) = 0
    /\ Len(validated) = 1

\* C4: when both bounds are given and min >= max, no version is in range:
\* validate_instances_json yields no candidate and find_match and
\* find_msbuild_in_range return an error, with or without an override.
C4_InvertedRangeFails ==
    (Called /\ max.some /\ min.some /\ Ge(min.val, max.val)) =>
        /\ validated = <<>>
        /\ result.kind \notin {"Ok", "Pending"}

C4_Witness ==
    /\ op = "find_msbuild_in_range"
    /\ max.some /\ min.some /\ Ge(min.val, max.val)
    /\ env.some
    /\ \E k \in Indices :
          HasVersion(k) /\ HasPath(k) /\ StartsWith(env.val, PathOf(k))
             /\ VersionCmp(VersionOf(k), max.val) = 0
    /\ result.kind = "NotFound" /\ result.stage = "find_match"

\* C5: without an override, when some well-formed record is in range,
\* find_match returns the path of a well-formed in-range record whose
\* version no other well-formed in-range record exceeds.
C5_MaxVersionSelected ==
    (op = "find_match" /\ ~env.some /\ Qualifying # {}) =>
        /\ result.kind = "Ok"
        /\ \E k \in Qualifying :
              /\ result.path = PathOf(k)
              /\ \A j \in Qualifying : ~Lt(VersionOf(k), VersionOf(j))

C5_Witness ==
    /\ op = "find_match" /\ ~env.some
    /\ Len(instances) = 2
    /\ Qualifying = {1, 2}
    /\ Lt(VersionOf(2), VersionOf(1))
    /\ result.kind = "Ok" /\ result.path = PathOf(1) /\ PathOf(1) # PathOf(2)

C8_OverrideFallsBack ==
    (op = "find_match" /\ env.some /\ Qualifying # {}
        /\ \A k \in Qualifying : ~StartsWith(env.val, PathOf(k))) =>
        /\ result.kind = "Ok"
        /\ \E k \in Qualifying : result.path = PathOf(k)

\* C9: find_match returns Ok(path) or an error of kind NotFound and nothing
\* else; without an override it fails if and only if no well-formed record
\* is in range, the empty instance list included.
C9_OkOrNotFound ==
    op = "find_match" =>
        /\ result.kind \in {"Ok", "NotFound"}
        /\ result.kind = "Ok" => \E k \in Indices : HasPath(k) /\ result.path = PathOf(k)
        /\ result.kind = "NotFound" => result.path = <<>>
        /\ ~env.some => (result.kind = "NotFound" <=> Qualifying = {})
        /\ instances = <<>> => result.kind = "NotFound"

C9_Witness ==
    /\ op = "find_match" /\ ~env.some
    /\ max.some
    /\ \E k \in Indices : HasVersion(k) /\ HasPath(k)
    /\ Qualifying = {}
    /\ result.kind = "NotFound"

\* C10: validate_instances_json returns exactly the records that have a
\* parseable installationVersion within [min, max) and a string
\* installationPath, each with its own version and path; no record with an
\* out-of-range version appears.
C10_ValidatedExactly ==
    op = "find_match" =>
        /\ Len(validated) = Cardinality(Qualifying)
        /\ \A k \in Qualifying :
              \E c \in DOMAIN validated : validated[c] = <<VersionOf(k), PathOf(k)>>
        /\ \A c \in DOMAIN validated :
              /\ \E k \in Qualifying : validated[c] = <<VersionOf(k), PathOf(k)>>
              /\ WithinBounds(validated[c][1])

C10_Witness ==
    /\ op = "find_match"
    /\ max.some /\ min.some
    /\ Len(instances) = 2
    /\ \A k \in Indices : HasVersion(k) /\ HasPath(k)
    /\ Qualifying = {2}
    /\ validated = << <<VersionOf(2), PathOf(2)>> >>


\* The instance list without its malformed records.
WellFormedOnly ==
    SelectSeq(instances,
              LAMBDA r : /\ r.installationVersion.kind = "string"
                         /\ VersionParse(r.installationVersion.text).some
                         /\ r.installationPath.kind = "string")

\* C11: a malformed record (missing or non-string installationPath, missing
\* or unparsable installationVersion) never aborts resolution: the
\* candidates and the result of find_match are those of the same batch with
\* the malformed records removed.
C11_MalformedSkipped ==
    op = "find_match" =>
        /\ validated = ValidateInstancesJson(WellFormedOnly, max, min)
        /\ result = Select(ValidateInstancesJson(WellFormedOnly, max, min), env)
        /\ result.kind \in {"Ok", "NotFound"}

C11_Witness ==
    /\ op = "find_match"
    /\ Len(instances) = 2
    /\ HasVersion(1) /\ ~HasPath(1) /\ WithinBounds(VersionOf(1))
    /\ Qualifying = {2}
    /\ diag = 1
    /\ result.kind = "Ok" /\ result.path = PathOf(2)


\* ------------------------------------------------------------------------
\* Properties of the Windows SDK functions
\* ------------------------------------------------------------------------

EntryVersion(e) == VersionParse(NameText[e.name])

\* The entries of Include that are directories, carry a version in
\* [min, max) as their name and contain the five required directories.
GoodEntries ==
    {k \in DOMAIN fs.entries :
        /\ fs.entries[k].kind = "dir"
        /\ EntryVersion(fs.entries[k]).some
        /\ WithinBounds(EntryVersion(fs.entries[k]).val)
        /\ \A n \in {"cppwinrt", "shared", "ucrt", "um", "winrt"} :
              fs.entries[k].children[n] = "dir"}

EntryPath(k) == <<"SDK", "Include", fs.entries[k].name>>

\* C12: on success include_versioned_subdirs returns exactly the entries of
\* parent/Include that are directories, whose name parses as a version in
\* [min, max) and that contain all required sub-directories; files,
\* unparsable names and out-of-range versions are skipped without error.
C12_SubdirsExactly ==
    op = "include_versioned_subdirs" =>
        /\ subdirs.kind = "Ok" =>
              /\ {subdirs.found[c] : c \in DOMAIN subdirs.found}
                    = {EntryPath(k) : k \in GoodEntries}
              /\ Len(subdirs.found) = Cardinality(GoodEntries)
        /\ (fs.include = "dir" /\ GoodEntries # {}) => subdirs.kind = "Ok"

C12_Witness ==
    /\ op = "include_versioned_subdirs"
    /\ max.some /\ min.some
    /\ Len(fs.entries) = 2
    /\ \E k \in DOMAIN fs.entries :
          \/ fs.entries[k].kind = "file"
          \/ ~EntryVersion(fs.entries[k]).some
          \/ ~WithinBounds(EntryVersion(fs.entries[k]).val)
    /\ Cardinality(GoodEntries) = 1
    /\ subdirs.kind = "Ok" /\ Len(subdirs.found) = 1

\* C13: include_versioned_subdirs fails with NotFound when parent/Include is
\* not a directory and when no listed sub-directory passes all filters; it
\* never returns Ok with an empty list.
C13_NotFoundWhenEmpty ==
    op = "include_versioned_subdirs" =>
        /\ fs.include \in {"absent", "file"} => subdirs.kind = "NotFound"
        /\ (fs.include = "dir" /\ GoodEntries = {}) => subdirs.kind = "NotFound"
        /\ subdirs.kind = "Ok" => subdirs.found # <<>>
        /\ subdirs.kind # "Ok" => subdirs.found = <<>>

C13_Witness ==
    /\ op = "include_versioned_subdirs"
    /\ fs.include = "dir"
    /\ Len(fs.entries) = 2
    /\ \E k \in DOMAIN fs.entries :
          fs.entries[k].kind = "dir" /\ EntryVersion(fs.entries[k]).some
    /\ GoodEntries = {}
    /\ subdirs.kind = "NotFound"

\* C14: on an unchanging file system find_in_range returns the include paths
\* below the Include sub-directory whose version is the maximum among those
\* in [min, max) and structurally valid; find does the same without bounds.
C14_MaxSdkSelected ==
    (op \in {"find_in_range", "find"} /\ sdk.kind = "Ok") =>
        /\ op = "find" => ~max.some /\ ~min.some
        /\ \E k \in GoodEntries :
              /\ sdk.dir = EntryPath(k)
              /\ \A j \in GoodEntries :
                    ~Lt(EntryVersion(fs.entries[k]).val, EntryVersion(fs.entries[j]).val)
        /\ sdk.include = [c \in 1..5 |-> sdk.dir \o <<EXPECTED_DIRS[c]>>]

C14_Witness ==
    /\ op = "find_in_range"
    /\ min.some
    /\ Len(fs.entries) = 2
    /\ GoodEntries = {1, 2}
    /\ fs.entries[1].name = "10.0.10.0" /\ fs.entries[2].name = "10.0.2.0"
    /\ sdk.kind = "Ok" /\ sdk.dir = <<"SDK", "Include", "10.0.10.0">>

\* C15: is_valid(path) is true if and only if path is a directory and each
\* of cppwinrt, shared, ucrt, um, winrt exists as a directory directly under
\* it; one missing or non-directory name makes it false.
C15_IsValidIff ==
    op = "is_valid" =>
        (valid <=>
            /\ target = <<"SDK", "Include", "10.0.1.0">>
            /\ fs.entries # <<>>
            /\ fs.entries[1].kind = "dir"
            /\ \A n \in {"cppwinrt", "shared", "ucrt", "um", "winrt"} :
                  fs.entries[1].children[n] = "dir")

C15_Witness ==
    /\ op = "is_valid"
    /\ target = <<"SDK", "Include", "10.0.1.0">>
    /\ fs.entries # <<>>
    /\ fs.entries[1].kind = "dir"
    /\ fs.entries[1].children["winrt"] = "file"
    /\ \A n \in {"cppwinrt", "shared", "ucrt", "um"} : fs.entries[1].children[n] = "dir"
    /\ ~valid


\* ------------------------------------------------------------------------
\* Properties of find_msbuild
\* ------------------------------------------------------------------------

\* The version n.0.0.0.
Major(n) == <<n, 0, 0, 0>>

\* The instances whose version is in [lo.0.0.0, hi.0.0.0).
InLine(lo, hi) ==
    {k \in Indices : Ge(VersionOf(k), Major(lo)) /\ Lt(VersionOf(k), Major(hi))}

\* The paths of the validated instances.
ValidatedPaths == {validated[j][2] : j \in DOMAIN validated}

\* The instances were enumerated: vswhere ran and find_match decided.
Enumerated == result.stage \in {"", "find_match"}

\* The call used the range [lo.0.0.0, hi.0.0.0).
UsedRange(lo, hi) ==
    /\ max = Some(Major(hi))
    /\ min = Some(Major(lo))
    /\ Enumerated => ValidatedPaths = {PathOf(k) : k \in InLine(lo, hi)}

\* C17: find_msbuild maps "2017", "2019" and "2022" to the ranges
\* [15.0.0.0, 16.0.0.0), [16.0.0.0, 17.0.0.0) and [17.0.0.0, 18.0.0.0); with
\* no product line there is no bound on either side; any other string fails
\* with InvalidData before any installation is enumerated.
C17_ProductLineRanges ==
    op = "find_msbuild" =>
        /\ plv = Some("2017") => UsedRange(15, 16)
        /\ plv = Some("2019") => UsedRange(16, 17)
        /\ plv = Some("2022") => UsedRange(17, 18)
        /\ plv = None =>
              /\ max = None /\ min = None
              /\ Enumerated => ValidatedPaths = {PathOf(k) : k \in Indices}
        /\ (plv.some /\ plv.val \notin {"2017", "2019", "2022"}) =>
              /\ result = Err("InvalidData", "try_from")
              /\ validated = <<>>
              /\ diag = 0

C17_Witness ==
    /\ op = "find_msbuild"
    /\ plv = Some("2019")
    /\ Len(instances) = 2
    /\ VersionOf(1) = Major(16)
    /\ VersionOf(2) = Major(17)
    /\ result = Ok(<<"VS", "16.0", "MsBuild", "Current", "Bin", "msbuild.exe">>)


\* The first record of the instance list that has a version and a path.
FirstFound ==
    CHOOSE k \in Indices :
        /\ HasVersion(k) /\ HasPath(k)
        /\ \A j \in Indices : (HasVersion(j) /\ HasPath(j)) => k <= j

\* C18: when find_msbuild is called with no product line version, the first
\* installation that is found, the first in the order of the instance list,
\* is selected.
C18_FirstInstallationSelected ==
    (/\ op = "find_msbuild"
     /\ plv = None
     /\ result.kind = "Ok") =>
        result.path = Join(PathOf(FirstFound), <<"MsBuild", "Current", "Bin", "msbuild.exe">>)


\* ------------------------------------------------------------------------
\* Properties of the order of the instance list
\* ------------------------------------------------------------------------

\* The rearrangements of a list of n elements.
Perms(n) == {f \in [1..n -> 1..n] : \A i, j \in 1..n : f[i] = f[j] => i = j}

\* The rearrangements of the lists of each length.
AllPerms == [n \in 0..MaxPermInstances |-> Perms(n)]

Permuted(s, f) == [i \in 1..Len(s) |-> s[f[i]]]

\* What find_match returns for the instance list rearranged by f.
ResultOf(f) == Select(ValidateInstancesJson(Permuted(instances, f), max, min), env)

\* What find_match returns over all the rearrangements of the instance list.
PermutedResults == {ResultOf(f) : f \in AllPerms[Len(instances)]}

\* The records the selection may pick, depending on the order: under an
\* override the qualifying records it lies under, otherwise the qualifying
\* records of the greatest version.
Winners ==
    IF env.some
    THEN {k \in Qualifying : StartsWith(env.val, PathOf(k))}
    ELSE {k \in Qualifying : \A j \in Qualifying : Ge(VersionOf(k), VersionOf(j))}

Completed == {i \in DOMAIN history : history[i].result # Pending}

SameInputs(i, j) ==
    /\ history[i].instances = history[j].instances
    /\ history[i].max = history[j].max
    /\ history[i].min = history[j].min
    /\ history[i].env = history[j].env

\* C20: resolution carries no state across calls: two calls of find_match
\* with the same candidate list, range and override value return the same
\* result whatever calls were made before; the result is decided by the
\* list, the range and the value the override variable had when the call
\* started, which is the one value the call reads.
C20_NoStateAcrossCalls ==
    /\ \A i, j \in Completed : SameInputs(i, j) => history[i].result = history[j].result
    /\ \A i \in DOMAIN history : history[i].override = history[i].env
    /\ \A i \in Completed :
          history[i].result
              = Select(ValidateInstancesJson(history[i].instances, history[i].max,
                                             history[i].min),
                       history[i].env)

C20_Witness ==
    /\ Len(history) = 3
    /\ Completed = {1, 2, 3}
    /\ SameInputs(1, 3)
    /\ history[1].env = None
    /\ history[2].env # None
    /\ history[1].instances = CallRecords
    /\ history[2].instances = CallRecords
    /\ history[1].result = Ok(<<"VS">>)
    /\ history[2].result = Ok(<<"VS", "Community">>)
    /\ history[3].result = Ok(<<"VS">>)
    /\ env # None


\* ------------------------------------------------------------------------
\* Properties of the installation folder
\* ------------------------------------------------------------------------

\* The registry decided the installation folder.
FromRegistry ==
    \/ result.stage \in {"open_subkey", "installation_folder_from_registry"}
    \/ (result.kind = "Ok" /\ registry.some /\ result.path = registry.val
        /\ ~(winSdkPath.some /\ result.path = winSdkPath.val))

\* C21: WIN_SDK_PATH overrides where the SDK is searched: set to an existing
\* directory it is the installation folder and the registry is not
\* consulted; set to something that is no directory the call fails with
\* InvalidData and the registry is not used instead; only when it is unset
\* is the registry value InstallationFolder used.
C21_WinSdkPathOverrides ==
    op = "installation_folder" =>
        /\ (winSdkPath.some /\ IsDir(fs, winSdkPath.val)) => result = Ok(winSdkPath.val)
        /\ (winSdkPath.some /\ ~IsDir(fs, winSdkPath.val)) => result.kind = "InvalidData"
        /\ FromRegistry => ~winSdkPath.some
        /\ (~winSdkPath.some /\ registry.some /\ IsDir(fs, registry.val))
              => result = Ok(registry.val)


\* ------------------------------------------------------------------------
\* Properties of ties
\* ------------------------------------------------------------------------

\* The greatest and the least index of a non-empty set of indices.
LastOf(S) == CHOOSE k \in S : \A j \in S : j <= k

FirstOf(S) == CHOOSE k \in S : \A j \in S : k <= j

\* C22: when several in-range candidates share the maximum version and no
\* override is set, find_match returns the path of the last of them in input
\* order.
C22_LastOfEqualMaxima ==
    (op = "find_match" /\ ~env.some /\ Winners # {}) =>
        result = Ok(PathOf(LastOf(Winners)))

C22_Witness ==
    /\ op = "find_match"
    /\ ~env.some
    /\ Len(instances) = 3
    /\ Winners = {1, 2}
    /\ Qualifying = {1, 2, 3}
    /\ PathOf(1) # PathOf(2)
    /\ result = Ok(PathOf(2))

FailsExtraction == {k \in Indices : ~HasVersion(k) \/ ~HasPath(k)}

\* C24: each record whose extraction fails is skipped and reported exactly
\* once; the records that extract successfully are not reported.
C24_OneDiagnosticPerFailure ==
    op = "find_match" =>
        /\ diag = Cardinality(FailsExtraction)
        /\ Len(validated) <= Cardinality(Indices \ FailsExtraction)


\* ------------------------------------------------------------------------
\* Properties of the unwrap calls
\* ------------------------------------------------------------------------

\* C25: find_in_range never panics: select_sdk is reached only with a
\* non-empty list of paths whose file names parse as versions, for every
\* directory content and range.
C25_NeverPanics ==
    /\ op \in {"find_in_range", "find"} => sdk.kind # "Panic"
    /\ (op = "include_versioned_subdirs" /\ subdirs.kind = "Ok") =>
          /\ subdirs.found # <<>>
          /\ \A k \in DOMAIN subdirs.found : FileNameVersion(subdirs.found[k]).some
          /\ SelectSdk(fs, subdirs.found).kind # "Panic"

C25_Witness ==
    /\ op = "find_in_range"
    /\ Len(fs.entries) = 2
    /\ fs.entries[1].name = "tmp" /\ fs.entries[1].kind = "dir"
    /\ \A c \in ExpectedNames : fs.entries[1].children[c] = "dir"
    /\ sdk.kind = "Ok"


\* ------------------------------------------------------------------------
\* Properties of the product line ranges
\* ------------------------------------------------------------------------

\* The product lines whose range holds the version v.
LinesHolding(v) ==
    {p \in {"Vs2017", "Vs2019", "Vs2022"} :
        HasVersionInRange(v, Some(InstallationVersionMax(p)), Some(InstallationVersionMin(p)))}

\* The product line a call of find_msbuild named.
LineCalled == ProductLineTryFrom(plv.val).val

\* C26: the three product line ranges are pairwise disjoint and contiguous:
\* every version from 15.0.0.0 up to but excluding 18.0.0.0 is in range for
\* exactly one product line, and a version equal to a line's max, the next
\* line's min, matches the next line and not the lower one.
C26_LinesPartition ==
    /\ \A k \in Indices :
          LET v == VersionOf(k)
          IN  /\ (Ge(v, Major(15)) /\ Lt(v, Major(18))) => Cardinality(LinesHolding(v)) = 1
              /\ ~(Ge(v, Major(15)) /\ Lt(v, Major(18))) => LinesHolding(v) = {}
              /\ v = Major(16) => LinesHolding(v) = {"Vs2019"}
              /\ v = Major(17) => LinesHolding(v) = {"Vs2022"}
    /\ (op = "find_msbuild" /\ plv.some /\ ProductLineTryFrom(plv.val).some /\ Enumerated) =>
          ValidatedPaths = {PathOf(k) : k \in {j \in Indices : LinesHolding(VersionOf(j)) = {LineCalled}}}

C26_Witness ==
    /\ op = "find_msbuild"
    /\ plv = Some("2022")
    /\ Len(instances) = 2
    /\ VersionOf(1) = Major(17)
    /\ VersionOf(2) = <<16, 11, 0, 0>>
    /\ result = Ok(<<"VS", "17.0", "MsBuild", "Current", "Bin", "msbuild.exe">>)


\* ------------------------------------------------------------------------
\* Properties of WinSdkIncludes::create
\* ------------------------------------------------------------------------

\* What create returns besides succeeding or not: on success the five paths
\* are the path joined with the fixed names, on failure the kind is NotFound.
CreateOutcome ==
    /\ sdk.kind = "Ok" =>
          sdk.include = [k \in 1..5 |-> Join(target, <<EXPECTED_DIRS[k]>>)]
    /\ sdk.kind # "Ok" => sdk.kind = "NotFound"

\* C27, as claimed: on an unchanged file system create(path) succeeds if and
\* only if is_valid(path) is true; on success each of the five paths is path
\* joined with its fixed name, on failure the error kind is NotFound.
C27_CreateIffIsValid ==
    op = "create" =>
        /\ sdk.kind = "Ok" <=> IsValid(fs, target)
        /\ CreateOutcome


\* ------------------------------------------------------------------------
\* Properties of a changing file system
\* ------------------------------------------------------------------------

\* The directory of the greatest version among those listed.
TopListed ==
    CHOOSE p \in {subdirs.found[k] : k \in DOMAIN subdirs.found} :
        \A k \in DOMAIN subdirs.found :
            ~Lt(FileNameVersion(p).val, FileNameVersion(subdirs.found[k]).val)

\* All five required directories are directories below p now.
AllFiveExist(p) == \A n \in ExpectedNames : IsDir(fs, Join(p, <<n>>))

RunsResolvedPath(i) ==
    \E k \in Indices :
        history[i].path = Join(PathOf(k), <<"MsBuild", "Current", "Bin", "msbuild.exe">>)

\* C29, as claimed: run checks the executable path first: when it does not
\* exist the result is NotFound and no process is started; when the process
\* runs the result is Ok exactly when the exit status is success and an
\* error of kind Other otherwise; the executable path is the resolved
\* installation path joined with MsBuild/Current/Bin/msbuild.exe.
C29_RunOutcome ==
    \A i \in DOMAIN history :
        /\ ~history[i].exists => (history[i].kind = "NotFound" /\ ~history[i].started)
        /\ history[i].started =>
              /\ history[i].kind = "Ok" <=> history[i].status = "success"
              /\ history[i].status # "success" => history[i].kind = "Other"
        /\ RunsResolvedPath(i)

\* C29, amended: as claimed, except that when the process fails and writing
\* its output to stdout fails too, the error of that write is returned
\* instead of an error of kind Other.
C29_RunOutcomeUnlessWriteFails ==
    \A i \in DOMAIN history :
        /\ ~history[i].exists => (history[i].kind = "NotFound" /\ ~history[i].started)
        /\ history[i].started =>
              /\ history[i].kind = "Ok" <=> history[i].status = "success"
              /\ (history[i].status # "success" /\ history[i].write = "written")
                    => history[i].kind = "Other"
              /\ (history[i].status # "success" /\ history[i].write # "written")
                    => history[i].kind = history[i].write
        /\ RunsResolvedPath(i)

C29_Witness ==
    /\ Len(history) = 2
    /\ ~history[1].exists /\ history[1].kind = "NotFound"
    /\ history[2].started /\ history[2].status = "code" /\ history[2].kind = "Other"
    /\ history[2].path = <<"VS", "MsBuild", "Current", "Bin", "msbuild.exe">>


\* ------------------------------------------------------------------------
\* VsWhere: locating and running vswhere.exe.

DEFAULT_PATH ==
    <<"C:", "Program Files (x86)", "Microsoft Visual Studio", "Installer", "vswhere.exe">>

DEFAULT_ARGS == <<"-legacy", "-prerelease", "-format", "json", "-products", "*">>

\* vswhere_path: env::var(VS_WHERE_PATH).unwrap_or(DEFAULT_PATH).  env::var
\* is an error both when the variable is unset and when its value is not
\* valid Unicode.
VswherePath(raw) ==
    LET v == EnvVar(raw) IN IF v.some THEN v.val ELSE DEFAULT_PATH

\* find_vswhere: Ok with the path when it exists, NotFound otherwise.
FindVswhere(raw, existing) ==
    LET path == VswherePath(raw)
    IN  IF path \in existing THEN Ok(path) ELSE Err("NotFound", "find_vswhere")

\* The arguments run passes to the command: args.unwrap_or(DEFAULT_ARGS).
CommandArgs(args) == IF args.some THEN args.val ELSE DEFAULT_ARGS

\* The result of run: the error of a command that could not be started,
\* InvalidData when its output is not UTF-8, the output otherwise.
VsWhereRunResult(spawn, utf8) ==
    IF spawn # "spawned" THEN spawn
    ELSE IF utf8 THEN "Ok" ELSE "InvalidData"

OtherVswhere == <<"D:", "tools", "vswhere.exe">>

NotUnicodeVswhere == <<"D:", NotUnicode, "vswhere.exe">>

WherePaths == {None, Some(OtherVswhere), Some(NotUnicodeVswhere), Some(DEFAULT_PATH)}

WhereArgs == {None, Some(<<>>), Some(<<"-latest">>), Some(DEFAULT_ARGS)}

InitWhere ==
    /\ instances = <<>>
    /\ max = None
    /\ min = None
    /\ env = None
    /\ op = "none"
    /\ validated = <<>>
    /\ diag = 0
    /\ result = Pending
    /\ NoSdk
    /\ NoCalls
    /\ \E e \in WherePaths, x \in SUBSET {DEFAULT_PATH, OtherVswhere, NotUnicodeVswhere} :
          vsWhere = [envPath |-> e, existing |-> x, found |-> WherePending,
                     given |-> None, used |-> <<>>, ran |-> "Pending"]

FindVswhereCall ==
    /\ op = "none"
    /\ op' = "find_vswhere"
    /\ vsWhere' = [vsWhere EXCEPT !.found = FindVswhere(vsWhere.envPath, vsWhere.existing)]
    /\ UNCHANGED <<instances, max, min, env, validated, diag, result, sdkVars, callVars>>

VsWhereRun(args, spawn, utf8) ==
    /\ op = "find_vswhere"
    /\ vsWhere.found.kind = "Ok"
    /\ op' = "vswhere_run"
    /\ vsWhere' = [vsWhere EXCEPT !.given = args,
                                  !.used = CommandArgs(args),
                                  !.ran = VsWhereRunResult(spawn, utf8)]
    /\ UNCHANGED <<instances, max, min, env, validated, diag, result, sdkVars, callVars>>

ReturnWhere ==
    /\ op \in {"find_vswhere", "vswhere_run"}
    /\ op' = "none"
    /\ vsWhere' = [vsWhere EXCEPT !.found = WherePending, !.given = None,
                                  !.used = <<>>, !.ran = "Pending"]
    /\ UNCHANGED <<instances, max, min, env, validated, diag, result, sdkVars, callVars>>

NextWhere ==
    \/ FindVswhereCall
    \/ \E args \in WhereArgs, spawn \in {"spawned", "PermissionDenied"}, utf8 \in BOOLEAN :
          VsWhereRun(args, spawn, utf8)
    \/ ReturnWhere

SpecWhere == InitWhere /\ [][NextWhere]_vars

\* The path the variable names when it is set, the default path otherwise.
ChosenVswhere ==
    IF vsWhere.envPath.some THEN vsWhere.envPath.val ELSE DEFAULT_PATH

\* C30: find_vswhere uses the value of VS_WHERE_PATH when it is set and the
\* default installer path otherwise; it returns Ok exactly when the chosen
\* path exists and NotFound otherwise, never falling back to the default
\* path when the overriding path does not exist.  run uses the default
\* argument list exactly when args is None.
C30_VsWherePathAndArgs ==
    /\ op \in {"find_vswhere", "vswhere_run"} =>
          vsWhere.found = (IF ChosenVswhere \in vsWhere.existing
                           THEN Ok(ChosenVswhere)
                           ELSE Err("NotFound", "find_vswhere"))
    /\ op = "vswhere_run" =>
          /\ ~vsWhere.given.some => vsWhere.used = DEFAULT_ARGS
          /\ vsWhere.given.some => vsWhere.used = vsWhere.given.val

====
